---------------------------- MODULE Spec2Model ----------------------------
(***************************************************************************)
(* Model of suwandre/arbiter: the Scorer (internal/scorer/scorer.go) and   *)
(* the Scheduler (internal/scheduler/scheduler.go).                        *)
(*                                                                         *)
(* float64 values are modelled as exact fractions <<n, d>> in lowest terms *)
(* with d >= 0; <<1, 0>> is +Inf, which Go yields for 1/(1+x) when 1+x is  *)
(* zero.  Rounding is not modelled.  Inputs are finite, so no NaN arises.  *)
(***************************************************************************)
EXTENDS Integers, Sequences, FiniteSets, TLC

VARIABLES
    exchanges,  \* Scorer.exchanges: the configured sources, by position
    pairs,      \* Scheduler.pairs
    cache,      \* Scheduler.cache: pair -> ranked list
    now,        \* the clock read by time.Now()
    call,       \* the ScoreAll call in progress: its pair and position
    task,       \* per source position: the goroutine running fetchAndScore
    results,    \* the buffered channel of ExchangeResult
    closed,     \* whether the channel has been closed
    wgCount,    \* ScoreAll's WaitGroup counter
    scores,     \* the collector's slice, in arrival order
    ret,        \* what the last ScoreAll call returned
    ctx,        \* the context handed to ScoreAll: "live" or "done"
    life,       \* Scheduler.cancel and wg, and where Start, the worker and Stop are
    pass,       \* the refresh pass in progress: who runs it and where it is
    mu,         \* Scheduler.mu
    reader,     \* the callers of GetScores
    hist        \* bookkeeping of earlier calls, read only by the properties

scorerVars == <<call, task, results, closed, wgCount, scores, ret>>
schedVars == <<pairs, cache, life, pass, mu, reader>>
vars == <<exchanges, now, ctx, scorerVars, schedVars, hist>>

-----------------------------------------------------------------------------
\* float64 arithmetic on fractions

Abs(x) == IF x < 0 THEN -x ELSE x

RECURSIVE GCD(_, _)
GCD(a, b) == IF b = 0 THEN a ELSE GCD(b, a % b)

Inf == <<1, 0>>

IsInf(a) == a[2] = 0

\* the fraction n/d in lowest terms, d # 0
Frac(n, d) ==
    LET g == GCD(Abs(n), Abs(d))
        s == IF d < 0 THEN -1 ELSE 1
    IN  <<(s * n) \div g, (s * d) \div g>>

Num(n) == <<n, 1>>

FAdd(a, b) ==
    IF IsInf(a) \/ IsInf(b) THEN Inf
    ELSE Frac(a[1] * b[2] + b[1] * a[2], a[2] * b[2])

FSub(a, b) == Frac(a[1] * b[2] - b[1] * a[2], a[2] * b[2])

FMul(a, b) ==
    IF IsInf(a) \/ IsInf(b) THEN Inf
    ELSE Frac(a[1] * b[1], a[2] * b[2])

\* a / b; a positive value divided by zero is +Inf
FDiv(a, b) ==
    IF b[1] = 0 THEN Inf
    ELSE Frac(a[1] * b[2], a[2] * b[1])

FGt(a, b) == a[1] * b[2] > b[1] * a[2]

FLt(a, b) == FGt(b, a)

FGe(a, b) == a = b \/ FGt(a, b)

-----------------------------------------------------------------------------
\* internal/models: what the adapters return, and ExchangeScore

FundingRate(ex, pair, rate) == [Exchange |-> ex, Pair |-> pair, Rate |-> rate]

Spread(ex, pair, bid, ask) ==
    [Exchange |-> ex, Pair |-> pair, Bid |-> Num(bid), Ask |-> Num(ask),
     Spread |-> FSub(Num(ask), Num(bid))]

OrderBookDepth(ex, pair, bidDepth, askDepth) ==
    [Exchange |-> ex, Pair |-> pair, BidDepth |-> Num(bidDepth),
     AskDepth |-> Num(askDepth)]

-----------------------------------------------------------------------------
\* internal/scorer: the pure part

spreadPct(spread) ==
    IF FGt(spread.Bid, Num(0))
    THEN FMul(FDiv(spread.Spread, spread.Bid), Num(100))
    ELSE Num(0)

\* the struct fetchAndScore builds once its three calls have succeeded
NewExchangeScore(name, pair, funding, spread, depth, t) ==
    [Exchange       |-> name,
     Pair           |-> pair,
     FundingRate    |-> funding.Rate,
     SpreadPct      |-> spreadPct(spread),
     RawBidDepth    |-> depth.BidDepth,
     RawAskDepth    |-> depth.AskDepth,
     DepthScore     |-> FAdd(depth.BidDepth, depth.AskDepth),
     CompositeScore |-> Num(0),
     UpdatedAt      |-> t]

RECURSIVE minDepthFrom(_, _, _)
minDepthFrom(s, k, m) ==
    IF k > Len(s) THEN m
    ELSE minDepthFrom(s, k + 1, IF FLt(s[k].DepthScore, m) THEN s[k].DepthScore ELSE m)

RECURSIVE maxDepthFrom(_, _, _)
maxDepthFrom(s, k, m) ==
    IF k > Len(s) THEN m
    ELSE maxDepthFrom(s, k + 1, IF FGt(s[k].DepthScore, m) THEN s[k].DepthScore ELSE m)

\* fault: the minimum is never advanced past the first arrival
minDFirstOnly(s) == s[1].DepthScore

minD(s) == minDepthFrom(s, 2, s[1].DepthScore)

maxD(s) == maxDepthFrom(s, 2, s[1].DepthScore)

\* fault: equal depths score 0 instead of 1
normalizeDepthTiesZero(s) ==
    LET lo == minD(s)
        hi == maxD(s)
    IN  [k \in 1..Len(s) |->
            [s[k] EXCEPT !.DepthScore =
                IF hi = lo THEN Num(0)
                ELSE FDiv(FSub(s[k].DepthScore, lo), FSub(hi, lo))]]

\* fault: the scale runs from the deepest book down
normalizeDepthInverted(s) ==
    LET lo == minD(s)
        hi == maxD(s)
    IN  [k \in 1..Len(s) |->
            [s[k] EXCEPT !.DepthScore =
                IF hi = lo THEN Num(1)
                ELSE FDiv(FSub(hi, s[k].DepthScore), FSub(hi, lo))]]

normalizeDepth(s) ==
    LET lo == minD(s)
        hi == maxD(s)
    IN  [k \in 1..Len(s) |->
            [s[k] EXCEPT !.DepthScore =
                IF hi = lo THEN Num(1)
                ELSE FDiv(FSub(s[k].DepthScore, lo), FSub(hi, lo))]]

\* fault: the depth term of the scorer before normalization was introduced
compositeOldDepthTerm(e) ==
    FAdd(FAdd(FMul(FDiv(Num(1), FAdd(Num(1), FMul(e.FundingRate, Num(100)))), Frac(4, 10)),
              FMul(FDiv(Num(1), FAdd(Num(1), e.SpreadPct)), Frac(4, 10))),
         FMul(FDiv(e.DepthScore, Num(1000000)), Frac(2, 10)))

composite(e) ==
    FAdd(FAdd(FMul(FDiv(Num(1), FAdd(Num(1), FMul(e.FundingRate, Num(100)))), Frac(4, 10)),
              FMul(FDiv(Num(1), FAdd(Num(1), e.SpreadPct)), Frac(4, 10))),
         FMul(e.DepthScore, Frac(2, 10)))

withComposite(s) ==
    [k \in 1..Len(s) |-> [s[k] EXCEPT !.CompositeScore = composite(s[k])]]

swap(s, i, j) == [s EXCEPT ![i] = s[j], ![j] = s[i]]

\* fault: the comparison is reversed
shouldSwapAscending(s, i, j) == FLt(s[j].CompositeScore, s[i].CompositeScore)

shouldSwap(s, i, j) == FGt(s[j].CompositeScore, s[i].CompositeScore)

RECURSIVE rankInner(_, _, _)
rankInner(s, i, j) ==
    IF j > Len(s) THEN s
    ELSE rankInner(IF shouldSwap(s, i, j) THEN swap(s, i, j) ELSE s, i, j + 1)

RECURSIVE rankOuter(_, _)
rankOuter(s, i) ==
    IF i > Len(s) - 1 THEN s
    ELSE rankOuter(rankInner(s, i, i + 1), i + 1)

rankScores(s) == rankOuter(s, 1)

\* ScoreAll from the end of the collection loop to its return
scoreAllResult(s, pair) ==
    IF Len(s) = 0
    THEN [scores |-> <<>>, err |-> TRUE, pair |-> pair]
    ELSE [scores |-> rankScores(withComposite(normalizeDepth(s))),
          err |-> FALSE, pair |-> pair]

-----------------------------------------------------------------------------
\* internal/scorer: one ScoreAll call, goroutine by goroutine

NilScore ==
    [Exchange |-> "", Pair |-> "", FundingRate |-> Num(0), SpreadPct |-> Num(0),
     RawBidDepth |-> Num(0), RawAskDepth |-> Num(0), DepthScore |-> Num(0),
     CompositeScore |-> Num(0), UpdatedAt |-> 0]

\* ExchangeResult
ScoreResult(score) == [Score |-> score, Err |-> "none"]

ErrResult(what) == [Score |-> NilScore, Err |-> what]

NoResult == [Score |-> NilScore, Err |-> "unset"]

NoFunding == FundingRate("", "", Num(0))

NoSpread == Spread("", "", 0, 0)

IdleCall == [pc |-> "idle", pair |-> ""]

NoRet == [scores |-> <<>>, err |-> FALSE, pair |-> ""]

Sources == 1..Len(exchanges)

Name(i) == exchanges[i]

\* ScoreAll up to the collection loop: the channel, one goroutine per source,
\* and the goroutine that closes the channel
ScoreAll(pair) ==
    /\ call.pc = "idle"
    /\ call' = [pc |-> "collect", pair |-> pair]
    /\ results' = <<>>
    /\ closed' = FALSE
    /\ wgCount' = Len(exchanges)
    /\ task' = [i \in Sources |->
                  [pc |-> "funding", live |-> ctx # "done", funding |-> NoFunding,
                   spread |-> NoSpread, res |-> NoResult]]
    /\ scores' = <<>>
    /\ ret' = NoRet

\* fault: a failed GetFundingRate is tried again
fetchFundingRetries(i, ok, rate) ==
    /\ call.pc = "collect"
    /\ task[i].pc = "funding"
    /\ ok => task[i].live
    /\ task' = [task EXCEPT ![i] =
                  IF ok
                  THEN [@ EXCEPT !.pc = "spread", !.live = ctx # "done",
                                 !.funding = FundingRate(Name(i), call.pair, rate)]
                  ELSE @]
    /\ UNCHANGED <<call, results, closed, wgCount, scores, ret>>

\* fetchAndScore: ex.GetFundingRate returns
fetchFunding(i, ok, rate) ==
    /\ call.pc = "collect"
    /\ task[i].pc = "funding"
    /\ ok => task[i].live
    /\ task' = [task EXCEPT ![i] =
                  IF ok
                  THEN [@ EXCEPT !.pc = "spread", !.live = ctx # "done",
                                 !.funding = FundingRate(Name(i), call.pair, rate)]
                  ELSE [@ EXCEPT !.pc = "send", !.live = FALSE,
                                 !.res = ErrResult("funding")]]
    /\ UNCHANGED <<call, results, closed, wgCount, scores, ret>>

\* fetchAndScore: ex.GetSpread returns
fetchSpread(i, ok, quote) ==
    /\ call.pc = "collect"
    /\ task[i].pc = "spread"
    /\ ok => task[i].live
    /\ task' = [task EXCEPT ![i] =
                  IF ok
                  THEN [@ EXCEPT !.pc = "depth", !.live = ctx # "done",
                                 !.spread = Spread(Name(i), call.pair, quote[1], quote[2])]
                  ELSE [@ EXCEPT !.pc = "send", !.live = FALSE, !.funding = NoFunding,
                                 !.res = ErrResult("spread")]]
    /\ UNCHANGED <<call, results, closed, wgCount, scores, ret>>

\* fault: the error of GetOrderBookDepth is dropped
fetchDepthIgnoresErr(i, ok, book) ==
    /\ call.pc = "collect"
    /\ task[i].pc = "depth"
    /\ task' = [task EXCEPT ![i] =
                  [pc |-> "send", live |-> FALSE, funding |-> NoFunding,
                   spread |-> NoSpread,
                   res |-> ScoreResult(NewExchangeScore(Name(i), call.pair,
                                task[i].funding, task[i].spread,
                                OrderBookDepth(Name(i), call.pair, book[1], book[2]),
                                now))]]
    /\ UNCHANGED <<call, results, closed, wgCount, scores, ret>>

\* fetchAndScore: ex.GetOrderBookDepth returns, and fetchAndScore with it
fetchDepth(i, ok, book) ==
    /\ call.pc = "collect"
    /\ task[i].pc = "depth"
    /\ ok => task[i].live
    /\ task' = [task EXCEPT ![i] =
                  [pc |-> "send", live |-> FALSE, funding |-> NoFunding,
                   spread |-> NoSpread,
                   res |-> IF ok
                           THEN ScoreResult(NewExchangeScore(Name(i), call.pair,
                                    task[i].funding, task[i].spread,
                                    OrderBookDepth(Name(i), call.pair, book[1], book[2]),
                                    now))
                           ELSE ErrResult("depth")]]
    /\ UNCHANGED <<call, results, closed, wgCount, scores, ret>>

\* the request of a call in progress was built with ctx: once ctx is done the
\* HTTP client gives the call up, and it can only return an error
requestCancelled(i) ==
    /\ call.pc = "collect"
    /\ task[i].pc \in {"funding", "spread", "depth"}
    /\ task[i].live
    /\ ctx = "done"
    /\ task' = [task EXCEPT ![i] = [@ EXCEPT !.live = FALSE]]
    /\ UNCHANGED <<call, results, closed, wgCount, scores, ret>>

\* results <- ExchangeResult{...}: the buffer holds one slot per source
sendResult(i) ==
    /\ call.pc = "collect"
    /\ task[i].pc = "send"
    /\ Len(results) < Len(exchanges)
    /\ ~closed
    /\ results' = Append(results, task[i].res)
    /\ task' = [task EXCEPT ![i] = [@ EXCEPT !.pc = "sent", !.res = NoResult]]
    /\ UNCHANGED <<call, closed, wgCount, scores, ret>>

\* fault: a goroutine returns, with its deferred wg.Done, without sending
wgDoneWithoutSend(i) ==
    /\ call.pc = "collect"
    /\ task[i].pc \in {"send", "sent"}
    /\ wgCount' = wgCount - 1
    /\ task' = [task EXCEPT ![i] = [@ EXCEPT !.pc = "done", !.res = NoResult]]
    /\ UNCHANGED <<call, results, closed, scores, ret>>

\* defer wg.Done()
wgDone(i) ==
    /\ call.pc = "collect"
    /\ task[i].pc = "sent"
    /\ wgCount' = wgCount - 1
    /\ task' = [task EXCEPT ![i] = [@ EXCEPT !.pc = "done"]]
    /\ UNCHANGED <<call, results, closed, scores, ret>>

\* fault: the channel is closed without waiting for the goroutines
closeResultsNoWait ==
    /\ call.pc = "collect"
    /\ ~closed
    /\ closed' = TRUE
    /\ UNCHANGED <<call, task, results, wgCount, scores, ret>>

\* go func() { wg.Wait(); close(results) }()
closeResults ==
    /\ call.pc = "collect"
    /\ wgCount = 0
    /\ ~closed
    /\ closed' = TRUE
    /\ UNCHANGED <<call, task, results, wgCount, scores, ret>>

\* fault: a failed result is appended like any other
collectedNoSkip(s, result) == Append(s, result.Score)

\* what one iteration of the collection loop appends
collected(s, result) ==
    IF result.Err # "none" THEN s ELSE Append(s, result.Score)

\* for result := range results: one iteration
receive ==
    /\ call.pc = "collect"
    /\ Len(results) > 0
    /\ scores' = collected(scores, Head(results))
    /\ results' = Tail(results)
    /\ UNCHANGED <<call, task, closed, wgCount, ret>>

\* fault: the loop ends as soon as the channel is empty
scoreAllReturnEarly ==
    /\ call.pc = "collect"
    /\ Len(results) = 0
    /\ ret' = scoreAllResult(scores, call.pair)
    /\ call' = [call EXCEPT !.pc = "returned"]
    /\ task' = <<>>
    /\ scores' = <<>>
    /\ UNCHANGED <<results, closed, wgCount>>

\* the loop ends on the closed, drained channel; ScoreAll runs to its return
scoreAllReturn ==
    /\ call.pc = "collect"
    /\ Len(results) = 0
    /\ closed
    /\ ret' = scoreAllResult(scores, call.pair)
    /\ call' = [call EXCEPT !.pc = "returned"]
    /\ task' = <<>>
    /\ scores' = <<>>
    /\ UNCHANGED <<results, closed, wgCount>>

-----------------------------------------------------------------------------
\* internal/scheduler: the state of a Scheduler

\* Scheduler fields and goroutine positions before Start
NoLife ==
    [cancel |-> FALSE, parent |-> "live", wg |-> 0, start |-> "idle",
     worker |-> "none", stop |-> "idle", tick |-> FALSE, ticks |-> 0]

NoPass == [by |-> "none", idx |-> 0, pc |-> "none"]

Unlocked == [writer |-> FALSE, readers |-> 0]

\* make(map[string][]*models.ExchangeScore)
EmptyCache == [q \in {} |-> <<>>]

-----------------------------------------------------------------------------
\* what the sources answer

Failure == [ok |-> FALSE, v |-> <<0, 0>>]

Answer(v) == [ok |-> TRUE, v |-> v]

\* funding rates: 0.0001 and 0.0005
FundingRates == {Frac(1, 10000), Frac(5, 10000)}

\* best bid and ask: a spread of 0.05% of the bid
Quotes == {<<2000, 2001>>}

\* notional resting on the bid side and on the ask side: 100 and 300 in total
Books == {<<50, 50>>, <<150, 150>>}

Outcomes(values) == {Failure} \cup {Answer(v) : v \in values}

\* the answers of source i so far in this call, in the order fetchAndScore asks
Survived(i) ==
    /\ Len(hist.market[i]) = 3
    /\ \A k \in 1..3 : hist.market[i][k].ok

FailedACall(i) == \E k \in 1..Len(hist.market[i]) : ~hist.market[i][k].ok

-----------------------------------------------------------------------------
\* ScoreAll called directly, MaxCalls times, by the same sources answering the
\* same way each time

MaxCalls == 2

ExchangeConfigs ==
    {<<>>, <<"binance">>, <<"binance", "bybit">>, <<"binance", "bybit", "mexc">>}

\* what the properties compare of a result: its error, and per entry the
\* exchange, the normalized depth and the composite score
Triples(r) ==
    [err |-> r.err,
     set |-> {<<r.scores[k].Exchange, r.scores[k].DepthScore,
                r.scores[k].CompositeScore>> : k \in 1..Len(r.scores)}]

NoHist ==
    [calls |-> 0, market |-> <<>>, first |-> Triples(NoRet), collected |-> <<>>,
     good |-> EmptyCache, written |-> EmptyCache, fails |-> <<>>,
     atRead |-> <<>>, asked |-> [at |-> 0, pairs |-> <<>>], invoked |-> <<>>,
     received |-> 0]

InitScoreAll ==
    /\ exchanges \in ExchangeConfigs
    /\ pairs = <<>>
    /\ cache = EmptyCache
    /\ now = 0
    /\ call = IdleCall
    /\ task = <<>>
    /\ results = <<>>
    /\ closed = FALSE
    /\ wgCount = 0
    /\ scores = <<>>
    /\ ret = NoRet
    /\ ctx = "live"
    /\ life = NoLife
    /\ pass = NoPass
    /\ mu = Unlocked
    /\ reader = <<>>
    /\ hist = [NoHist EXCEPT !.market = [i \in 1..Len(exchanges) |-> <<>>]]

\* the goroutines at position pc
At(pc) == {i \in DOMAIN task : task[i].pc = pc}

\* the answers source i may give to its k-th call: any on the first ScoreAll
\* call, the recorded one afterwards
Answers(i, k, values) ==
    IF hist.calls = 0 THEN Outcomes(values) ELSE {hist.market[i][k]}

Recorded(i, o) ==
    IF hist.calls = 0
    THEN [hist EXCEPT !.market[i] = Append(@, o)]
    ELSE hist

DirectCall ==
    /\ hist.calls < MaxCalls
    /\ ScoreAll("BTCUSDT")
    /\ now' = now + 1
    /\ hist' = [hist EXCEPT !.received = 0]
    /\ UNCHANGED <<exchanges, ctx, schedVars>>

DirectFunding ==
    \E i \in At("funding") : \E o \in Answers(i, 1, FundingRates) :
        /\ fetchFunding(i, o.ok, o.v)
        /\ hist' = Recorded(i, o)
        /\ UNCHANGED <<exchanges, now, ctx, schedVars>>

DirectSpread ==
    \E i \in At("spread") : \E o \in Answers(i, 2, Quotes) :
        /\ fetchSpread(i, o.ok, o.v)
        /\ hist' = Recorded(i, o)
        /\ UNCHANGED <<exchanges, now, ctx, schedVars>>

DirectDepth ==
    \E i \in At("depth") : \E o \in Answers(i, 3, Books) :
        /\ fetchDepth(i, o.ok, o.v)
        /\ hist' = Recorded(i, o)
        /\ UNCHANGED <<exchanges, now, ctx, schedVars>>

DirectSend ==
    \E i \in DOMAIN task :
        /\ sendResult(i)
        /\ UNCHANGED <<exchanges, now, ctx, schedVars, hist>>

DirectDone ==
    \E i \in DOMAIN task :
        /\ wgDone(i)
        /\ UNCHANGED <<exchanges, now, ctx, schedVars, hist>>

DirectClose ==
    /\ closeResults
    /\ UNCHANGED <<exchanges, now, ctx, schedVars, hist>>

\* hist.received: the results the collection loop has taken in this call
DirectReceive ==
    /\ receive
    /\ hist' = [hist EXCEPT !.received = @ + 1]
    /\ UNCHANGED <<exchanges, now, ctx, schedVars>>

DirectReturn ==
    /\ scoreAllReturn
    /\ hist' = [hist EXCEPT !.calls = @ + 1,
                            !.first = IF hist.calls = 0
                                      THEN Triples(scoreAllResult(scores, call.pair))
                                      ELSE @]
    /\ UNCHANGED <<exchanges, now, ctx, schedVars>>

\* the caller takes the result
DirectTake ==
    /\ call.pc = "returned"
    /\ call' = IdleCall
    /\ UNCHANGED <<exchanges, now, ctx, task, results, closed, wgCount, scores,
                   ret, schedVars, hist>>

NextScoreAll ==
    \/ DirectCall
    \/ DirectFunding
    \/ DirectSpread
    \/ DirectDepth
    \/ DirectSend
    \/ DirectDone
    \/ DirectClose
    \/ DirectReceive
    \/ DirectReturn
    \/ DirectTake

SpecScoreAll == InitScoreAll /\ [][NextScoreAll]_vars

\* the collection loop can end: the condition under which scoreAllReturn is
\* enabled
AtLoopEnd ==
    /\ call.pc = "collect"
    /\ Len(results) = 0
    /\ closed

\* a step of a call in progress before the loop ends: a source call returns,
\* or a goroutine of ScoreAll takes a step
ScoreAllStep ==
    \/ DirectFunding
    \/ DirectSpread
    \/ DirectDepth
    \/ DirectSend
    \/ DirectDone
    \/ DirectClose
    \/ DirectReceive

\* source calls return and the Go scheduler runs goroutines: while a step of
\* the call in progress is possible, one is eventually taken. For the return
\* this is weak fairness of scoreAllReturn, written by its enabling condition:
\* a scoreAllReturn step is the only step that leaves AtLoopEnd, so
\* WF_vars(DirectReturn) is []<>~AtLoopEnd.
FairScoreAll ==
    /\ WF_vars(ScoreAllStep)
    /\ []<>~AtLoopEnd

\* no source, one source or two sources configured
InitFewSources ==
    /\ InitScoreAll
    /\ Len(exchanges) <= 2

\* ScoreAll called once
FirstCall ==
    /\ hist.calls = 0
    /\ DirectCall

NextOneCall ==
    \/ FirstCall
    \/ DirectFunding
    \/ DirectSpread
    \/ DirectDepth
    \/ DirectSend
    \/ DirectDone
    \/ DirectClose
    \/ DirectReceive
    \/ DirectReturn
    \/ DirectTake

\* one call of ScoreAll under these conditions
SpecScoreAllFair == InitFewSources /\ [][NextOneCall]_vars /\ FairScoreAll

-----------------------------------------------------------------------------
\* ScoreAll from the end of its collection loop, over a wider range of answers:
\* every goroutine has delivered, the channel is closed and drained, and the
\* collector holds the survivors in their order of arrival

\* funding rates: -2%, -1%, 0.01% and 0.05%
WideRates == {Frac(-2, 100), Frac(-1, 100), Frac(1, 10000), Frac(5, 10000)}

\* spreads of 0.05% and 0.10% of the bid, and a zero bid
WideQuotes == {<<2000, 2001>>, <<2000, 2002>>, <<0, 5>>}

\* totals of 100 (twice), 200 and 300
WideBooks == {<<50, 50>>, <<40, 60>>, <<80, 120>>, <<150, 150>>}

\* orders of arrival of the survivors among n sources
Arrivals(n) ==
    CASE n = 0 -> {<<>>}
      [] n = 1 -> {<<>>, <<1>>}
      [] n = 2 -> {<<>>, <<1>>, <<2>>, <<1, 2>>, <<2, 1>>}
      [] OTHER -> {<<2, 3>>, <<3, 1, 2>>}

InSeq(x, s) == \E k \in 1..Len(s) : s[k] = x

InitCollected ==
    /\ exchanges \in ExchangeConfigs
    /\ pairs = <<>>
    /\ cache = EmptyCache
    /\ now = 1
    /\ call = [pc |-> "collect", pair |-> "BTCUSDT"]
    /\ task = [i \in 1..Len(exchanges) |->
                 [pc |-> "done", live |-> FALSE, funding |-> NoFunding,
                  spread |-> NoSpread, res |-> NoResult]]
    /\ results = <<>>
    /\ closed = TRUE
    /\ wgCount = 0
    /\ ret = NoRet
    /\ ctx = "live"
    /\ life = NoLife
    /\ pass = NoPass
    /\ mu = Unlocked
    /\ reader = <<>>
    /\ \E order \in Arrivals(Len(exchanges)) :
       \E answers \in [1..Len(order) -> WideRates \X WideQuotes \X WideBooks] :
          /\ scores = [k \in 1..Len(order) |->
                NewExchangeScore(exchanges[order[k]], "BTCUSDT",
                    FundingRate(exchanges[order[k]], "BTCUSDT", answers[k][1]),
                    Spread(exchanges[order[k]], "BTCUSDT",
                           answers[k][2][1], answers[k][2][2]),
                    OrderBookDepth(exchanges[order[k]], "BTCUSDT",
                                   answers[k][3][1], answers[k][3][2]),
                    1)]
          /\ hist = [NoHist EXCEPT
                     !.market = [i \in 1..Len(exchanges) |->
                        IF InSeq(i, order)
                        THEN LET k == CHOOSE j \in 1..Len(order) : order[j] = i
                             IN  <<Answer(answers[k][1]), Answer(answers[k][2]),
                                   Answer(answers[k][3])>>
                        ELSE <<Failure>>],
                     !.collected = scores]

CollectedReturn ==
    /\ scoreAllReturn
    /\ hist' = [hist EXCEPT !.calls = @ + 1, !.first = Triples(ret')]
    /\ UNCHANGED <<exchanges, now, ctx, schedVars>>

NextCollected ==
    \/ CollectedReturn
    \/ DirectTake

SpecCollected == InitCollected /\ [][NextCollected]_vars

-----------------------------------------------------------------------------
\* internal/scheduler: Start, the worker, refresh, Stop, GetScores

\* scores, ok := s.cache[pair]
lookup(c, p) ==
    IF p \in DOMAIN c THEN [scores |-> c[p], ok |-> TRUE]
    ELSE [scores |-> <<>>, ok |-> FALSE]

\* s.cache[pair] = scores
stored(c, p, list) ==
    [q \in (DOMAIN c) \cup {p} |-> IF q = p THEN list ELSE c[q]]

Configured(p) == \E k \in 1..Len(pairs) : pairs[k] = p

NextPair == [pass EXCEPT !.idx = @ + 1, !.pc = "call"]

\* fault: Start launches the worker without the initial refresh
StartNoInitialPass ==
    /\ life.start = "idle"
    /\ ctx' = life.parent
    /\ life' = [life EXCEPT !.cancel = TRUE, !.start = "refresh"]
    /\ pass' = [by |-> "start", idx |-> Len(pairs) + 1, pc |-> "call"]
    /\ now' = now + 1
    /\ UNCHANGED <<exchanges, scorerVars, pairs, cache, mu, reader, hist>>

\* Start up to its call of refresh
Start ==
    /\ life.start = "idle"
    /\ ctx' = life.parent
    /\ life' = [life EXCEPT !.cancel = TRUE, !.start = "refresh"]
    /\ pass' = [by |-> "start", idx |-> 1, pc |-> "call"]
    /\ now' = now + 1
    /\ UNCHANGED <<exchanges, scorerVars, pairs, cache, mu, reader, hist>>

\* refresh: scores, err := s.scorer.ScoreAll(ctx, pair)
refreshCall ==
    /\ pass.pc = "call"
    /\ pass.idx <= Len(pairs)
    /\ ScoreAll(pairs[pass.idx])
    /\ pass' = [pass EXCEPT !.pc = "await"]
    /\ UNCHANGED <<exchanges, now, ctx, pairs, cache, life, mu, reader>>

\* fault: a failed cycle drops the pair's entry
refreshFailedDropsEntry ==
    /\ pass.pc = "await"
    /\ call.pc = "returned"
    /\ ret.err
    /\ call' = IdleCall
    /\ pass' = NextPair
    /\ cache' = [q \in (DOMAIN cache) \ {pairs[pass.idx]} |-> cache[q]]
    /\ UNCHANGED <<exchanges, now, ctx, task, results, closed, wgCount, scores, ret,
                   pairs, life, mu, reader>>

\* fault: the nil list of a failed cycle is stored like a result
refreshFailedStoresNil ==
    /\ pass.pc = "await"
    /\ call.pc = "returned"
    /\ ret.err
    /\ ~mu.writer
    /\ mu.readers = 0
    /\ call' = IdleCall
    /\ pass' = NextPair
    /\ cache' = stored(cache, pairs[pass.idx], ret.scores)
    /\ UNCHANGED <<exchanges, now, ctx, task, results, closed, wgCount, scores, ret,
                   pairs, life, mu, reader>>

\* fault: a failed pair ends the pass (return in place of continue)
refreshFailedEndsPass ==
    /\ pass.pc = "await"
    /\ call.pc = "returned"
    /\ ret.err
    /\ call' = IdleCall
    /\ pass' = [pass EXCEPT !.idx = Len(pairs) + 1, !.pc = "call"]
    /\ UNCHANGED <<exchanges, now, ctx, task, results, closed, wgCount, scores, ret,
                   pairs, cache, life, mu, reader>>

\* refresh: ScoreAll has returned an error: log and continue
refreshFailed ==
    /\ pass.pc = "await"
    /\ call.pc = "returned"
    /\ ret.err
    /\ call' = IdleCall
    /\ pass' = NextPair
    /\ UNCHANGED <<exchanges, now, ctx, task, results, closed, wgCount, scores, ret,
                   pairs, cache, life, mu, reader>>

\* refresh: ScoreAll has returned a list
refreshScored ==
    /\ pass.pc = "await"
    /\ call.pc = "returned"
    /\ ~ret.err
    /\ call' = IdleCall
    /\ pass' = [pass EXCEPT !.pc = "lock"]
    /\ UNCHANGED <<exchanges, now, ctx, task, results, closed, wgCount, scores, ret,
                   pairs, cache, life, mu, reader, hist>>

\* fault: the write side is taken while readers hold the read side
refreshLockIgnoresReaders ==
    /\ pass.pc = "lock"
    /\ ~mu.writer
    /\ mu' = [mu EXCEPT !.writer = TRUE]
    /\ pass' = [pass EXCEPT !.pc = "write"]
    /\ UNCHANGED <<exchanges, now, ctx, scorerVars, pairs, cache, life, reader, hist>>

\* refresh: s.mu.Lock()
refreshLock ==
    /\ pass.pc = "lock"
    /\ ~mu.writer
    /\ mu.readers = 0
    /\ mu' = [mu EXCEPT !.writer = TRUE]
    /\ pass' = [pass EXCEPT !.pc = "write"]
    /\ UNCHANGED <<exchanges, now, ctx, scorerVars, pairs, cache, life, reader, hist>>

\* fault: the new entries are appended to the pair's entry
refreshWriteAppends ==
    /\ pass.pc = "write"
    /\ cache' = stored(cache, pairs[pass.idx],
                       lookup(cache, pairs[pass.idx]).scores \o ret.scores)
    /\ mu' = [mu EXCEPT !.writer = FALSE]
    /\ pass' = NextPair
    /\ UNCHANGED <<exchanges, now, ctx, scorerVars, pairs, life, reader>>

\* fault: every list is stored under the first configured pair
refreshWriteFirstKey ==
    /\ pass.pc = "write"
    /\ cache' = stored(cache, pairs[1], ret.scores)
    /\ mu' = [mu EXCEPT !.writer = FALSE]
    /\ pass' = NextPair
    /\ UNCHANGED <<exchanges, now, ctx, scorerVars, pairs, life, reader>>

\* fault: the records of the cached list are reused for the new values
refreshWriteInPlace ==
    /\ pass.pc = "write"
    /\ cache' = stored(cache, pairs[pass.idx],
                       IF pairs[pass.idx] \in DOMAIN cache
                       THEN [k \in 1..Len(ret.scores) |->
                               [ret.scores[k] EXCEPT
                                  !.UpdatedAt = cache[pairs[pass.idx]][1].UpdatedAt]]
                       ELSE ret.scores)
    /\ mu' = [mu EXCEPT !.writer = FALSE]
    /\ pass' = NextPair
    /\ UNCHANGED <<exchanges, now, ctx, scorerVars, pairs, life, reader>>

\* refresh: s.cache[pair] = scores; s.mu.Unlock()
refreshWrite ==
    /\ pass.pc = "write"
    /\ cache' = stored(cache, pairs[pass.idx], ret.scores)
    /\ mu' = [mu EXCEPT !.writer = FALSE]
    /\ pass' = NextPair
    /\ UNCHANGED <<exchanges, now, ctx, scorerVars, pairs, life, reader>>

\* fault: the worker is launched while the initial refresh is still running
startWorkerEarly ==
    /\ pass.by = "start"
    /\ life.start = "refresh"
    /\ pass' = IF pass.pc = "call" /\ pass.idx > Len(pairs) THEN NoPass ELSE pass
    /\ life' = [life EXCEPT !.wg = @ + 1, !.worker = "select", !.start = "returned"]
    /\ UNCHANGED <<exchanges, now, ctx, scorerVars, pairs, cache, mu, reader, hist>>

\* Start: refresh has returned; s.wg.Add(1), the worker is launched, Start returns
startWorker ==
    /\ pass.by = "start"
    /\ pass.pc = "call"
    /\ pass.idx > Len(pairs)
    /\ pass' = NoPass
    /\ life' = [life EXCEPT !.wg = @ + 1, !.worker = "select", !.start = "returned"]
    /\ UNCHANGED <<exchanges, now, ctx, scorerVars, pairs, cache, mu, reader, hist>>

\* the ticker delivers a tick; a tick not yet taken is not queued twice
tick ==
    /\ life.worker \in {"select", "refresh"}
    /\ ~life.tick
    /\ life' = [life EXCEPT !.tick = TRUE, !.ticks = @ + 1]
    /\ UNCHANGED <<exchanges, now, ctx, scorerVars, pairs, cache, pass, mu, reader, hist>>

\* worker: case <-ticker.C: s.refresh(ctx)
workerTick ==
    /\ life.worker = "select"
    /\ life.tick
    /\ life' = [life EXCEPT !.tick = FALSE, !.worker = "refresh"]
    /\ pass' = [by |-> "worker", idx |-> 1, pc |-> "call"]
    /\ now' = now + 1
    /\ UNCHANGED <<exchanges, ctx, scorerVars, pairs, cache, mu, reader, hist>>

\* worker: refresh has returned, back to the select
workerNext ==
    /\ pass.by = "worker"
    /\ pass.pc = "call"
    /\ pass.idx > Len(pairs)
    /\ pass' = NoPass
    /\ life' = [life EXCEPT !.worker = "select"]
    /\ UNCHANGED <<exchanges, now, ctx, scorerVars, pairs, cache, mu, reader, hist>>

\* worker: case <-ctx.Done(): return, with the deferred ticker.Stop and wg.Done
workerExit ==
    /\ life.worker = "select"
    /\ ctx = "done"
    /\ life' = [life EXCEPT !.worker = "exited", !.wg = @ - 1]
    /\ UNCHANGED <<exchanges, now, ctx, scorerVars, pairs, cache, pass, mu, reader, hist>>

\* Stop: s.cancel()
stopCancel ==
    /\ life.cancel
    /\ life.stop = "idle"
    /\ ctx' = "done"
    /\ life' = [life EXCEPT !.stop = "wait"]
    /\ UNCHANGED <<exchanges, now, scorerVars, pairs, cache, pass, mu, reader, hist>>

\* fault: Stop returns without waiting for the worker
stopReturnNoWait ==
    /\ life.stop = "wait"
    /\ life' = [life EXCEPT !.stop = "returned"]
    /\ UNCHANGED <<exchanges, now, ctx, scorerVars, pairs, cache, pass, mu, reader, hist>>

\* Stop: s.wg.Wait() returns
stopReturn ==
    /\ life.stop = "wait"
    /\ life.wg = 0
    /\ life' = [life EXCEPT !.stop = "returned"]
    /\ UNCHANGED <<exchanges, now, ctx, scorerVars, pairs, cache, pass, mu, reader, hist>>

\* fault: Start's context is not derived from the context it was given
parentCancelNotDerived ==
    /\ life.parent = "live"
    /\ life' = [life EXCEPT !.parent = "done"]
    /\ ctx' = ctx
    /\ UNCHANGED <<exchanges, now, scorerVars, pairs, cache, pass, mu, reader, hist>>

\* main: the signal context is cancelled, and with it the context Start derived
parentCancel ==
    /\ life.parent = "live"
    /\ life' = [life EXCEPT !.parent = "done"]
    /\ ctx' = IF life.cancel THEN "done" ELSE ctx
    /\ UNCHANGED <<exchanges, now, scorerVars, pairs, cache, pass, mu, reader, hist>>

IdleReader == [pc |-> "idle", pair |-> "", scores |-> <<>>, ok |-> FALSE]

\* GetScores: s.mu.RLock()
getScoresRLock(r, p) ==
    /\ reader[r].pc \in {"idle", "done"}
    /\ ~mu.writer
    /\ mu' = [mu EXCEPT !.readers = @ + 1]
    /\ reader' = [reader EXCEPT ![r] = [IdleReader EXCEPT !.pc = "locked", !.pair = p]]
    /\ UNCHANGED <<exchanges, now, ctx, scorerVars, pairs, cache, life, pass>>

\* GetScores: scores, ok := s.cache[pair]; return, with the deferred RUnlock
getScoresRead(r) ==
    /\ reader[r].pc = "locked"
    /\ reader' = [reader EXCEPT ![r] =
                    [pc |-> "done", pair |-> reader[r].pair,
                     scores |-> lookup(cache, reader[r].pair).scores,
                     ok |-> lookup(cache, reader[r].pair).ok]]
    /\ mu' = [mu EXCEPT !.readers = @ - 1]
    /\ UNCHANGED <<exchanges, now, ctx, scorerVars, pairs, cache, life, pass>>

-----------------------------------------------------------------------------
\* api/handlers: GET /scores/:pair

StatusBadRequest == 400

StatusNotFound == 404

StatusOK == 200

\* fault: the handler ignores ok and answers with whatever list it got
respondIgnoresOk(pair, list, ok) ==
    IF pair = ""
    THEN [status |-> StatusBadRequest, pair |-> "", scores |-> <<>>]
    ELSE [status |-> StatusOK, pair |-> pair, scores |-> list]

\* ScoreHandler.GetScores: the answer, given what Scheduler.GetScores returned
respond(pair, list, ok) ==
    IF pair = ""
    THEN [status |-> StatusBadRequest, pair |-> "", scores |-> <<>>]
    ELSE IF ~ok
         THEN [status |-> StatusNotFound, pair |-> "", scores |-> <<>>]
         ELSE [status |-> StatusOK, pair |-> pair, scores |-> list]

\* ScoreHandler.GetScores: pair == "", answered without a call of GetScores
handlerEmptyPair(r) ==
    /\ reader[r].pc \in {"idle", "done"}
    /\ reader' = [reader EXCEPT ![r] = [IdleReader EXCEPT !.pc = "done"]]
    /\ UNCHANGED <<exchanges, now, ctx, scorerVars, pairs, cache, life, pass, mu>>

\* the answer to the query reader r has finished
Response(r) == respond(reader[r].pair, reader[r].scores, reader[r].ok)

-----------------------------------------------------------------------------
\* The program of cmd/main.go with one tracked pair: two exchanges, a Scheduler
\* started once, queries served from its cache, Stop and the signal context

MaxTicks == 2

Readers == {1}

\* the pairs asked for: the tracked one and one that is not tracked
QueryPairs == {"BTCUSDT", "XRPUSDT"}

\* what each exchange answers when it answers
SteadyRate(name) == IF name = "binance" THEN Frac(1, 10000) ELSE Frac(5, 10000)

SteadyBook(name) == IF name = "binance" THEN <<50, 50>> ELSE <<150, 150>>

\* what is recorded at a read: nothing before GetScores has read the cache
NothingRead == [fails |-> 0, good |-> <<>>, written |-> lookup(EmptyCache, "")]

Init ==
    /\ exchanges = <<"binance", "bybit">>
    /\ pairs = <<"BTCUSDT">>
    /\ cache = EmptyCache
    /\ now = 0
    /\ ctx = "live"
    /\ call = IdleCall
    /\ task = <<>>
    /\ results = <<>>
    /\ closed = FALSE
    /\ wgCount = 0
    /\ scores = <<>>
    /\ ret = NoRet
    /\ life = NoLife
    /\ pass = NoPass
    /\ mu = Unlocked
    /\ reader = [r \in Readers |-> IdleReader]
    /\ hist = [NoHist EXCEPT
                 !.fails = [k \in 1..Len(pairs) |-> 0],
                 !.atRead = [r \in Readers |-> NothingRead]]

\* hist.asked: the pairs ScoreAll has been called for in the pass numbered now;
\* hist.invoked: per source, the capability methods that have returned in the
\* ScoreAll call in progress, in order, with their outcome, kept until
\* fetchAndScore's result is sent
SchedCall ==
    /\ refreshCall
    /\ hist' = [hist EXCEPT
                  !.asked = [at |-> now,
                             pairs |-> Append(IF @.at = now THEN @.pairs ELSE <<>>,
                                              pairs[pass.idx])],
                  !.invoked = [i \in Sources |-> <<>>]]

SchedFunding ==
    \E i \in At("funding") : \E o \in Outcomes({SteadyRate(Name(i))} \cap FundingRates) :
        /\ fetchFunding(i, o.ok, o.v)
        /\ hist' = [hist EXCEPT !.invoked[i] = Append(@, [m |-> "funding", ok |-> o.ok])]
        /\ UNCHANGED <<exchanges, now, ctx, schedVars>>

SchedSpread ==
    \E i \in At("spread") : \E o \in Outcomes(Quotes) :
        /\ fetchSpread(i, o.ok, o.v)
        /\ hist' = [hist EXCEPT !.invoked[i] = Append(@, [m |-> "spread", ok |-> o.ok])]
        /\ UNCHANGED <<exchanges, now, ctx, schedVars>>

SchedDepth ==
    \E i \in At("depth") : \E o \in Outcomes({SteadyBook(Name(i))} \cap Books) :
        /\ fetchDepth(i, o.ok, o.v)
        /\ hist' = [hist EXCEPT !.invoked[i] = Append(@, [m |-> "depth", ok |-> o.ok])]
        /\ UNCHANGED <<exchanges, now, ctx, schedVars>>

SchedCancelled ==
    \E i \in DOMAIN task :
        /\ requestCancelled(i)
        /\ UNCHANGED <<exchanges, now, ctx, schedVars, hist>>

SchedSend ==
    \E i \in DOMAIN task :
        /\ sendResult(i)
        /\ hist' = [hist EXCEPT !.invoked[i] = <<>>]
        /\ UNCHANGED <<exchanges, now, ctx, schedVars>>

SchedDone ==
    \E i \in DOMAIN task :
        /\ wgDone(i)
        /\ UNCHANGED <<exchanges, now, ctx, schedVars, hist>>

SchedClose ==
    /\ closeResults
    /\ UNCHANGED <<exchanges, now, ctx, schedVars, hist>>

SchedReceive ==
    /\ receive
    /\ UNCHANGED <<exchanges, now, ctx, schedVars, hist>>

SchedReturn ==
    /\ scoreAllReturn
    /\ hist' = [hist EXCEPT
                  !.good = IF ret'.err THEN @ ELSE stored(@, call.pair, ret'.scores),
                  !.fails[pass.idx] = IF ret'.err /\ call.pair \in DOMAIN hist.good
                                      THEN @ + 1 ELSE 0,
                  !.invoked = <<>>]
    /\ UNCHANGED <<exchanges, now, ctx, schedVars>>

SchedFailed ==
    /\ refreshFailed
    /\ UNCHANGED hist

SchedWrite ==
    /\ refreshWrite
    /\ hist' = [hist EXCEPT !.written =
                  stored(@, pairs[pass.idx], hist.good[pairs[pass.idx]])]

SchedTick ==
    /\ life.ticks < MaxTicks
    /\ tick

QueryLock ==
    \E r \in DOMAIN reader : \E p \in QueryPairs :
        /\ getScoresRLock(r, p)
        /\ hist' = [hist EXCEPT !.atRead[r] = NothingRead]

QueryEmpty ==
    \E r \in DOMAIN reader :
        /\ handlerEmptyPair(r)
        /\ hist' = [hist EXCEPT !.atRead[r] = NothingRead]

\* the failed cycles of pair p since a list of it was last returned by ScoreAll
FailsOf(p) ==
    IF \E k \in 1..Len(pairs) : pairs[k] = p
    THEN hist.fails[CHOOSE k \in 1..Len(pairs) : pairs[k] = p]
    ELSE 0

QueryRead ==
    \E r \in DOMAIN reader :
        /\ getScoresRead(r)
        /\ hist' = [hist EXCEPT !.atRead[r] =
                      [fails |-> FailsOf(reader[r].pair),
                       good |-> lookup(hist.good, reader[r].pair).scores,
                       written |-> lookup(hist.written, reader[r].pair)]]

Next ==
    \/ Start
    \/ SchedCall
    \/ SchedFunding
    \/ SchedSpread
    \/ SchedDepth
    \/ SchedCancelled
    \/ SchedSend
    \/ SchedDone
    \/ SchedClose
    \/ SchedReceive
    \/ SchedReturn
    \/ SchedFailed
    \/ refreshScored
    \/ refreshLock
    \/ SchedWrite
    \/ startWorker
    \/ SchedTick
    \/ workerTick
    \/ workerNext
    \/ workerExit
    \/ stopCancel
    \/ stopReturn
    \/ parentCancel
    \/ QueryLock
    \/ QueryRead
    \/ QueryEmpty

Spec == Init /\ [][Next]_vars

-----------------------------------------------------------------------------
\* The Scheduler with one source and one tracked pair, queried by two clients
\* at a time

TwoReaders == {1, 2}

InitReaders ==
    /\ exchanges = <<"binance">>
    /\ pairs = <<"BTCUSDT">>
    /\ cache = EmptyCache
    /\ now = 0
    /\ ctx = "live"
    /\ call = IdleCall
    /\ task = <<>>
    /\ results = <<>>
    /\ closed = FALSE
    /\ wgCount = 0
    /\ scores = <<>>
    /\ ret = NoRet
    /\ life = NoLife
    /\ pass = NoPass
    /\ mu = Unlocked
    /\ reader = [r \in TwoReaders |-> IdleReader]
    /\ hist = [NoHist EXCEPT
                 !.fails = [k \in 1..Len(pairs) |-> 0],
                 !.atRead = [r \in TwoReaders |-> NothingRead]]

SpecReaders == InitReaders /\ [][Next]_vars

-----------------------------------------------------------------------------
\* The Scheduler with two tracked pairs and no query in progress

InitPairs ==
    /\ exchanges = <<"binance", "bybit">>
    /\ pairs = <<"BTCUSDT", "ETHUSDT">>
    /\ cache = EmptyCache
    /\ now = 0
    /\ ctx = "live"
    /\ call = IdleCall
    /\ task = <<>>
    /\ results = <<>>
    /\ closed = FALSE
    /\ wgCount = 0
    /\ scores = <<>>
    /\ ret = NoRet
    /\ life = NoLife
    /\ pass = NoPass
    /\ mu = Unlocked
    /\ reader = <<>>
    /\ hist = [NoHist EXCEPT !.fails = [k \in 1..Len(pairs) |-> 0]]

NextPairs ==
    \/ Start
    \/ SchedCall
    \/ SchedFunding
    \/ SchedSpread
    \/ SchedDepth
    \/ SchedCancelled
    \/ SchedSend
    \/ SchedDone
    \/ SchedClose
    \/ SchedReceive
    \/ SchedReturn
    \/ SchedFailed
    \/ refreshScored
    \/ refreshLock
    \/ SchedWrite
    \/ startWorker
    \/ SchedTick
    \/ workerTick
    \/ workerNext
    \/ workerExit
    \/ stopCancel
    \/ stopReturn
    \/ parentCancel

SpecPairs == InitPairs /\ [][NextPairs]_vars

-----------------------------------------------------------------------------
\* The Scheduler with one tracked pair and no query in progress, in which source
\* calls return and the Go scheduler runs goroutines

InitOnePair ==
    /\ exchanges = <<"binance", "bybit">>
    /\ pairs = <<"BTCUSDT">>
    /\ cache = EmptyCache
    /\ now = 0
    /\ ctx = "live"
    /\ call = IdleCall
    /\ task = <<>>
    /\ results = <<>>
    /\ closed = FALSE
    /\ wgCount = 0
    /\ scores = <<>>
    /\ ret = NoRet
    /\ life = NoLife
    /\ pass = NoPass
    /\ mu = Unlocked
    /\ reader = <<>>
    /\ hist = [NoHist EXCEPT !.fails = [k \in 1..Len(pairs) |-> 0]]

\* a source call returns, or a goroutine of a ScoreAll call takes a step before
\* the collection loop ends
CallStep ==
    \/ SchedFunding
    \/ SchedSpread
    \/ SchedDepth
    \/ SchedCancelled
    \/ SchedSend
    \/ SchedDone
    \/ SchedClose
    \/ SchedReceive

\* the goroutine running refresh takes a step: in Start, or in the worker
RefreshStep ==
    \/ SchedCall
    \/ SchedFailed
    \/ refreshScored
    \/ refreshLock
    \/ SchedWrite
    \/ startWorker
    \/ workerNext

\* A goroutine that can take a step eventually takes one, and a source call
\* eventually returns. For ScoreAll's return this is weak fairness of
\* scoreAllReturn, written by its enabling condition as in FairScoreAll. The
\* select of the worker chooses among its ready cases at random, so a case that
\* is ready again and again is eventually chosen: strong fairness of the
\* ctx.Done case. Nothing is assumed of the ticker, of the callers of Stop or
\* of the signal.
FairScheduler ==
    /\ WF_vars(CallStep)
    /\ []<>~AtLoopEnd
    /\ WF_vars(RefreshStep)
    /\ SF_vars(workerExit)
    /\ WF_vars(stopReturn)

SpecFair == InitOnePair /\ [][NextPairs]_vars /\ FairScheduler

-----------------------------------------------------------------------------
\* Properties of ScoreAll

Returned == call.pc = "returned"

Ranked == 1..Len(ret.scores)

\* the positions of the result that carry the name of source i
EntriesOf(i) == {k \in Ranked : ret.scores[k].Exchange = Name(i)}

\* C1: ScoreAll returns an error exactly when every configured source failed
\* one of its three calls (also with no source configured); otherwise it
\* returns a non-empty list and no error.
C1_ErrorIffAllSourcesFailed ==
    Returned =>
        /\ ret.err <=> \A i \in Sources : FailedACall(i)
        /\ ret.err => Len(ret.scores) = 0
        /\ ~ret.err => Len(ret.scores) > 0

C1_Witness ==
    /\ Returned
    /\ ret.err
    /\ Len(exchanges) = 3
    /\ Len(hist.market[1]) = 1
    /\ Len(hist.market[2]) = 2
    /\ Len(hist.market[3]) = 3

\* C2: in a successful result no entry carries the identifier of a source that
\* failed one of its three calls.
C2_FailedSourceExcluded ==
    (Returned /\ ~ret.err) =>
        \A i \in Sources : FailedACall(i) => EntriesOf(i) = {}

C2_Witness ==
    /\ Returned
    /\ ~ret.err
    /\ Len(exchanges) = 3
    /\ Len(ret.scores) = 2
    /\ FailedACall(2)
    /\ Len(hist.market[2]) = 3

\* C3: every source whose three calls succeeded appears exactly once in the
\* result, whatever the other sources do, and no two entries share (exchange,
\* pair).
C3_SurvivorsAppearOnce ==
    Returned =>
        /\ \A i \in Sources : Survived(i) => Cardinality(EntriesOf(i)) = 1
        /\ \A k, l \in Ranked :
              (ret.scores[k].Exchange = ret.scores[l].Exchange
                  /\ ret.scores[k].Pair = ret.scores[l].Pair) => k = l

C3_Witness ==
    /\ Returned
    /\ Len(exchanges) = 3
    /\ Survived(1)
    /\ Survived(3)
    /\ FailedACall(2)
    /\ Len(ret.scores) = 2
    /\ ret.scores[1].Exchange = Name(3)

\* C9: with the sources answering the same way, every later ScoreAll call
\* yields the same error and the same set of (exchange, normalized depth,
\* composite) triples as the first, whatever the interleaving of either call.
C9_SameAnswersSameTriples ==
    (Returned /\ hist.calls >= 2) => Triples(ret) = hist.first

C9_Witness ==
    /\ Returned
    /\ hist.calls = 2
    /\ Len(ret.scores) = 3
    /\ \E k, l \in Ranked : ret.scores[k].DepthScore # ret.scores[l].DepthScore
    /\ \E k, l \in Ranked : FGt(ret.scores[k].CompositeScore, ret.scores[l].CompositeScore)

-----------------------------------------------------------------------------
\* Properties of the scores, over the wider range of answers

\* the source that result entry k names, and what it answered
SourceOf(k) == CHOOSE i \in Sources : Name(i) = ret.scores[k].Exchange

RateOf(k) == hist.market[SourceOf(k)][1].v

QuoteOf(k) == hist.market[SourceOf(k)][2].v

BookOf(k) == hist.market[SourceOf(k)][3].v

\* an entry of the result is the collected entry c, scores aside
SameEntry(e, c) ==
    /\ e.Exchange = c.Exchange
    /\ e.Pair = c.Pair
    /\ e.FundingRate = c.FundingRate
    /\ e.SpreadPct = c.SpreadPct
    /\ e.RawBidDepth = c.RawBidDepth
    /\ e.RawAskDepth = c.RawAskDepth
    /\ e.UpdatedAt = c.UpdatedAt

\* C4: a successful result is sorted by non-increasing composite score, for
\* every order of arrival, and is a permutation of the survivors.
C4_SortedPermutation ==
    (Returned /\ ~ret.err) =>
        /\ \A k \in 1..(Len(ret.scores) - 1) :
              FGe(ret.scores[k].CompositeScore, ret.scores[k + 1].CompositeScore)
        /\ Len(ret.scores) = Len(hist.collected)
        /\ \A j \in 1..Len(hist.collected) :
              Cardinality({k \in Ranked : SameEntry(ret.scores[k], hist.collected[j])}) = 1

C4_Witness ==
    /\ Returned
    /\ Len(ret.scores) = 3
    /\ ret.scores[3].Exchange = hist.collected[1].Exchange
    /\ ret.scores[1].Exchange = hist.collected[3].Exchange
    /\ FGt(ret.scores[1].CompositeScore, ret.scores[2].CompositeScore)
    /\ FGt(ret.scores[2].CompositeScore, ret.scores[3].CompositeScore)

\* the summed raw depth behind entry k, from the book its source answered
RawTotal(k) == BookOf(k)[1] + BookOf(k)[2]

LeastTotal == CHOOSE x \in {RawTotal(k) : k \in Ranked} : \A k \in Ranked : x <= RawTotal(k)

MostTotal == CHOOSE x \in {RawTotal(k) : k \in Ranked} : \A k \in Ranked : x >= RawTotal(k)

\* C5: every normalized depth lies in [0,1] and is (raw - min)/(max - min)
\* over the survivors' summed raw depths; with all raw depths equal (a single
\* survivor included) it is 1.
C5_DepthMinMax ==
    (Returned /\ ~ret.err) =>
        \A k \in Ranked :
            LET d == ret.scores[k].DepthScore
            IN  /\ d[2] > 0
                /\ 0 <= d[1]
                /\ d[1] <= d[2]
                /\ IF MostTotal = LeastTotal
                   THEN d = <<1, 1>>
                   ELSE d[1] * (MostTotal - LeastTotal) = (RawTotal(k) - LeastTotal) * d[2]

C5_Witness ==
    /\ Returned
    /\ Len(ret.scores) = 3
    /\ \E k \in Ranked : ret.scores[k].DepthScore = <<1, 2>>
    /\ \E k \in Ranked : BookOf(k) = <<40, 60>>

\* 1/(1 + n/d) as a fraction; +Inf when 1 + n/d is zero, as float64 division
Inverted(n, d) == IF d + n = 0 THEN <<1, 0>> ELSE Frac(d, d + n)

\* 0.4*a + 0.4*b + 0.2*c over fractions a, b, c with c finite
Weighted(a, b, c) ==
    IF a[2] = 0 \/ b[2] = 0 THEN <<1, 0>>
    ELSE <<2 * a[1] * b[2] * c[2] + 2 * b[1] * a[2] * c[2] + c[1] * a[2] * b[2],
           5 * a[2] * b[2] * c[2]>>

\* the stated formula for entry k, from what its source answered
StatedComposite(k) ==
    LET rate == RateOf(k)
        bid  == QuoteOf(k)[1]
        ask  == QuoteOf(k)[2]
    IN  Weighted(Inverted(100 * rate[1], rate[2]),
                 IF bid > 0 THEN Inverted(100 * (ask - bid), bid) ELSE <<1, 1>>,
                 ret.scores[k].DepthScore)

\* equality of fractions that need not be in lowest terms
SameValue(a, b) == a[1] * b[2] = b[1] * a[2] /\ (a[2] = 0 <=> b[2] = 0)

\* C6: every composite is 0.4/(1 + fundingRate*100) + 0.4/(1 + spreadPct)
\* + 0.2*normalizedDepth, with spreadPct = (ask - bid)/bid*100 for bid > 0 and 0
\* otherwise, and the depth normalized over the same call's survivors.
C6_CompositeFormula ==
    (Returned /\ ~ret.err) =>
        \A k \in Ranked :
            /\ SameValue(ret.scores[k].CompositeScore, StatedComposite(k))
            /\ ret.scores[k].FundingRate = RateOf(k)
            /\ IF QuoteOf(k)[1] > 0
               THEN SameValue(ret.scores[k].SpreadPct,
                              <<100 * (QuoteOf(k)[2] - QuoteOf(k)[1]), QuoteOf(k)[1]>>)
               ELSE ret.scores[k].SpreadPct = <<0, 1>>

C6_Witness ==
    /\ Returned
    /\ Len(ret.scores) = 3
    /\ \E k \in Ranked : QuoteOf(k)[1] = 0
    /\ \E k \in Ranked : QuoteOf(k) = <<2000, 2002>> /\ RateOf(k) = <<1, 2000>>
                            /\ ret.scores[k].DepthScore = <<1, 2>>

\* the scenario's sources: A answers funding 0.0001, a spread of 0.05% and a
\* total depth of 100; B answers funding 0.0005, a spread of 0.10% and 300
ScenarioA(i) ==
    /\ Survived(i)
    /\ hist.market[i][1].v = Frac(1, 10000)
    /\ hist.market[i][2].v = <<2000, 2001>>
    /\ hist.market[i][3].v[1] + hist.market[i][3].v[2] = 100

ScenarioB(i) ==
    /\ Survived(i)
    /\ hist.market[i][1].v = Frac(5, 10000)
    /\ hist.market[i][2].v = <<2000, 2002>>
    /\ hist.market[i][3].v[1] + hist.market[i][3].v[2] = 300

Scenario(a, b) == Returned /\ Len(exchanges) = 2 /\ ScenarioA(a) /\ ScenarioB(b)

\* C7 as stated: in the scenario A gets normalized depth 0, B gets 1, and the
\* list ranks A first and B second.
C7_ScenarioRanksAFirst ==
    \A a, b \in Sources :
        Scenario(a, b) =>
            /\ ~ret.err
            /\ Len(ret.scores) = 2
            /\ ret.scores[1].Exchange = Name(a)
            /\ ret.scores[1].DepthScore = Num(0)
            /\ ret.scores[2].Exchange = Name(b)
            /\ ret.scores[2].DepthScore = Num(1)

\* C7 amended: in the scenario A gets normalized depth 0 and B gets 1; B's
\* composite is 1091/1155 (about 0.945), A's is 1648/2121 (about 0.777), and
\* the list ranks B first and A second, for either order of arrival.
C7_ScenarioRanksBFirst ==
    \A a, b \in Sources :
        Scenario(a, b) =>
            /\ ~ret.err
            /\ Len(ret.scores) = 2
            /\ ret.scores[1].Exchange = Name(b)
            /\ ret.scores[1].DepthScore = Num(1)
            /\ ret.scores[1].CompositeScore = <<1091, 1155>>
            /\ ret.scores[2].Exchange = Name(a)
            /\ ret.scores[2].DepthScore = Num(0)
            /\ ret.scores[2].CompositeScore = <<1648, 2121>>

C7_Witness ==
    \E a, b \in Sources :
        /\ Scenario(a, b)
        /\ hist.collected[1].Exchange = Name(a)
        /\ ret.scores[1].Exchange = Name(b)

\* C8 as stated: of two survivors with equal spread percentage and equal
\* normalized depth, the one with the strictly lower funding rate has a
\* composite at least as high and is ranked before the other.
C8_LowerFundingRanksFirst ==
    (Returned /\ ~ret.err) =>
        \A j, k \in Ranked :
            (/\ ret.scores[j].SpreadPct = ret.scores[k].SpreadPct
             /\ ret.scores[j].DepthScore = ret.scores[k].DepthScore
             /\ FLt(ret.scores[j].FundingRate, ret.scores[k].FundingRate))
            => /\ FGe(ret.scores[j].CompositeScore, ret.scores[k].CompositeScore)
               /\ j < k

-----------------------------------------------------------------------------
\* Properties of the Scheduler

\* C10: once ScoreAll has returned a list for a pair and one or more later
\* cycles have failed for it, GetScores returns found = true and exactly that
\* list, in content and order.
C10_StaleListServed ==
    \A r \in DOMAIN reader :
        (reader[r].pc = "done" /\ hist.atRead[r].fails >= 1) =>
            /\ reader[r].ok
            /\ reader[r].scores = hist.atRead[r].good

C10_Witness ==
    \E r \in DOMAIN reader :
        /\ reader[r].pc = "done"
        /\ hist.atRead[r].fails = 2
        /\ reader[r].ok
        /\ Len(reader[r].scores) = 2
        /\ reader[r].scores[1].UpdatedAt = 1
        /\ now = 3

\* the list is non-increasing in composite score
RankedList(list) ==
    \A k \in 1..(Len(list) - 1) :
        ~FGt(list[k + 1].CompositeScore, list[k].CompositeScore)

\* all entries were built in the same refresh pass, for the same pair
OneCycle(list) ==
    \A j, k \in 1..Len(list) :
        /\ list[j].UpdatedAt = list[k].UpdatedAt
        /\ list[j].Pair = list[k].Pair

\* C11: whenever GetScores returns a list for a pair, it is exactly the list
\* returned by the most recent successful ScoreAll of that pair whose cache
\* write has completed: the entries of one cycle, ranked, never a mix of two
\* cycles.
C11_AtomicPublication ==
    \A r \in DOMAIN reader :
        (reader[r].pc = "done" /\ reader[r].ok) =>
            /\ hist.atRead[r].written.ok
            /\ reader[r].scores = hist.atRead[r].written.scores
            /\ OneCycle(reader[r].scores)
            /\ RankedList(reader[r].scores)

\* a reader got the list of the second pass while the third pass has already
\* returned a new list that is not yet written
C11_Witness ==
    \E r \in DOMAIN reader :
        /\ reader[r].pc = "done"
        /\ reader[r].ok
        /\ Len(reader[r].scores) = 2
        /\ reader[r].scores[1].UpdatedAt = 2
        /\ reader[r].pair \in DOMAIN hist.good
        /\ hist.good[reader[r].pair] # reader[r].scores
        /\ pass.pc = "lock"

\* C12 as stated: GetScores returns found = false exactly when no ScoreAll of
\* the pair has yet returned a list. (Lists returned by ScoreAll are only ever
\* added to hist.good, so with this equivalence found = true would also stay
\* true.)
C12_FoundIffACallSucceeded ==
    \A r \in DOMAIN reader :
        reader[r].pc = "done" =>
            (~reader[r].ok <=> hist.atRead[r].good = <<>>)

\* C12, amended: GetScores returns found = false exactly when no list returned
\* by a ScoreAll of the pair has yet been written to the cache; what was
\* written once is found in every later state, and a pair that is not
\* configured is never found.
C12_FoundIffPublished ==
    /\ \A r \in DOMAIN reader :
        reader[r].pc = "done" => (~reader[r].ok <=> ~hist.atRead[r].written.ok)
    /\ \A p \in DOMAIN hist.written : lookup(cache, p).ok
    /\ \A p \in DOMAIN cache : Configured(p)

\* both passes so far have failed and a reader is told the tracked pair is not
\* there
C12_Witness ==
    \E r \in DOMAIN reader :
        /\ reader[r].pc = "done"
        /\ ~reader[r].ok
        /\ Configured(reader[r].pair)
        /\ life.start = "returned"
        /\ now = 2
        /\ pass.pc = "none"

\* the worker goroutines that have been launched and have not exited
Workers == IF life.worker \in {"none", "exited"} THEN 0 ELSE 1

\* C13: Start runs one complete refresh pass over all configured pairs before
\* it launches the worker and returns: when Start has returned (and no later
\* pass has begun), ScoreAll has been called once for every configured pair in
\* order, every pair whose call succeeded is found in the cache with that
\* list, and exactly one worker has been launched.
C13_StartRefreshesFirst ==
    /\ life.start = "refresh" =>
        /\ life.worker = "none"
        /\ life.wg = 0
        /\ pass.by = "start"
    /\ life.start = "returned" =>
        /\ life.worker # "none"
        /\ life.wg = Workers
    /\ (life.start = "returned" /\ now = 1) =>
        /\ hist.asked = [at |-> 1, pairs |-> pairs]
        /\ \A p \in DOMAIN hist.good :
            /\ lookup(cache, p).ok
            /\ lookup(cache, p).scores = hist.good[p]

\* Start has returned after a pass in which the first pair failed and the
\* second succeeded
C13_Witness ==
    /\ life.start = "returned"
    /\ now = 1
    /\ life.worker = "select"
    /\ life.wg = 1
    /\ DOMAIN hist.good = {"ETHUSDT"}
    /\ lookup(cache, "ETHUSDT").ok
    /\ ~lookup(cache, "BTCUSDT").ok

\* a refresh is between its call of ScoreAll for a pair and the end of its
\* handling of that pair
MidFlight == pass.pc \in {"await", "lock", "write"}

\* C14: Stop does not return while a refresh cycle that was mid-flight at its
\* call has yet to finish, in the initial pass of Start as in a pass of the
\* worker, and once Stop has returned the cache is not written again: in no
\* state has Stop returned while a cycle is mid-flight or a write is to come.
C14_NoWriteAfterStop ==
    life.stop = "returned" => ~MidFlight

\* the sources with a capability method in progress
InCall == {i \in DOMAIN task : task[i].pc \in {"funding", "spread", "depth"}}

\* C15: Stop does not reach into the source calls of the cycle in flight: after
\* Stop has been called (the parent context still live) every call in progress
\* is free to run to its own outcome, none has been given up because of the
\* Scheduler's context.
C15_StopAbortsNoCall ==
    (life.stop # "idle" /\ life.parent = "live") =>
        \A i \in InCall : task[i].live

\* a step of a query leaves everything but the reader and the lock as it is
QueryFrame ==
    reader' # reader =>
        UNCHANGED <<exchanges, now, ctx, call, task, results, closed, wgCount,
                    scores, ret, pairs, cache, life, pass>>

\* what the handler has answered, against what the cache held at the read
Answered ==
    \A r \in DOMAIN reader :
        reader[r].pc = "done" =>
            /\ reader[r].pair = "" => Response(r).status = StatusBadRequest
            /\ reader[r].pair # "" =>
                /\ Response(r).status \in {StatusNotFound, StatusOK}
                /\ Response(r).status = StatusNotFound
                       <=> ~hist.atRead[r].written.ok
                /\ Response(r).status = StatusOK =>
                    /\ Response(r).pair = reader[r].pair
                    /\ Response(r).scores = hist.atRead[r].written.scores
                    /\ RankedList(Response(r).scores)

\* C16: a query is answered from the cache alone: no step of the handler or of
\* GetScores calls ScoreAll or a source or changes the cache or the scheduler;
\* the answer is a client error for an empty pair, not-found exactly when the
\* cache has no entry for the pair, and the cached ranked list otherwise.
C16_QueryReadsCacheOnly == []Answered /\ [][QueryFrame]_vars

\* after the first pass has failed and the second succeeded, a query gets the
\* list while the third pass is calling the sources
C16_Witness ==
    \E r \in DOMAIN reader :
        /\ reader[r].pc = "done"
        /\ Response(r).status = StatusOK
        /\ Len(Response(r).scores) = 2
        /\ Response(r).scores[1].UpdatedAt = 2
        /\ now = 3
        /\ InCall # {}

-----------------------------------------------------------------------------
\* Properties of ScoreAll's goroutines

Survivors == {i \in Sources : Survived(i)}

\* the summed raw depth source i answered
TotalOf(i) == hist.market[i][3].v[1] + hist.market[i][3].v[2]

SurvivorTotals == {TotalOf(i) : i \in Survivors}

LeastOf(S) == CHOOSE x \in S : \A y \in S : x <= y

MostOf(S) == CHOOSE x \in S : \A y \in S : x >= y

\* the normalized depth of entry e is taken over the totals of all survivors
OverAllSurvivors(e) ==
    \E i \in Survivors :
        /\ Name(i) = e.Exchange
        /\ IF MostOf(SurvivorTotals) = LeastOf(SurvivorTotals)
           THEN e.DepthScore = <<1, 1>>
           ELSE e.DepthScore[1] * (MostOf(SurvivorTotals) - LeastOf(SurvivorTotals))
                    = (TotalOf(i) - LeastOf(SurvivorTotals)) * e.DepthScore[2]

\* the step in which ScoreAll leaves its collection loop, normalizes, computes
\* the composites, ranks and returns
JoinedAtReturn ==
    (call.pc = "collect" /\ call'.pc = "returned") =>
        /\ \A i \in DOMAIN task : task[i].pc = "done"
        /\ wgCount = 0
        /\ closed
        /\ Len(results) = 0
        /\ Len(scores) = Cardinality(Survivors)
        /\ \A k \in 1..Len(ret'.scores) : OverAllSurvivors(ret'.scores[k])
        /\ task' = <<>>

\* C17: normalization, composites and ranking start only when every goroutine
\* of the call has delivered its result and finished; min and max depth are
\* taken over all survivors, and no goroutine of the call is left when
\* ScoreAll returns.
C17_JoinBarrier == [][JoinedAtReturn]_vars

\* a call of three sources has returned two survivors, normalized against
\* each other, the third having failed its last call
C17_Witness ==
    /\ Returned
    /\ Len(exchanges) = 3
    /\ Cardinality(Survivors) = 2
    /\ Len(ret.scores) = 2
    /\ ret.scores[1].DepthScore = <<1, 1>>
    /\ ret.scores[2].DepthScore = <<0, 1>>
    /\ \E i \in Sources : Len(hist.market[i]) = 3 /\ ~hist.market[i][3].ok
    /\ hist.calls = 1

-----------------------------------------------------------------------------
\* Properties of the refresh passes

IsPrefix(s, u) == Len(s) <= Len(u) /\ \A k \in 1..Len(s) : s[k] = u[k]

\* one pass at a time, run by Start before the worker exists and by the worker
\* afterwards; the one ScoreAll in progress is the call of that pass for its
\* current pair, and the pairs are taken in configured order
OnePass ==
    /\ pass.by = "start" => (life.start = "refresh" /\ life.worker = "none")
    /\ pass.by = "worker" => (life.start = "returned" /\ life.worker = "refresh")
    /\ life.worker = "refresh" => pass.by = "worker"
    /\ call.pc # "idle" =>
        /\ pass.pc = "await"
        /\ call.pair = pairs[pass.idx]
    /\ mu.writer => pass.pc = "write"
    /\ IsPrefix(hist.asked.pairs, pairs)
    /\ pass.pc \in {"await", "lock", "write"} =>
        /\ hist.asked.at = now
        /\ Len(hist.asked.pairs) = pass.idx

\* a pass begins only when none is in progress, and a write replaces a pair's
\* list by one of a later pass
PassSteps ==
    /\ (pass' # pass /\ pass'.pc = "call" /\ pass'.idx = 1) =>
        /\ pass = NoPass
        /\ call.pc = "idle"
    /\ \A p \in DOMAIN cache :
        cache'[p] # cache[p] =>
            /\ pass.pc = "write"
            /\ pairs[pass.idx] = p
            /\ cache'[p][1].UpdatedAt > cache[p][1].UpdatedAt

\* C18: refreshes are strictly sequential: at most one ScoreAll issued by the
\* Scheduler is in progress, the initial pass ends before the worker exists,
\* the worker runs one pass at a time over the pairs in configured order,
\* writes for a pair follow the order of their ScoreAll calls, and a tick
\* that arrives during a pass starts no overlapping pass.
C18_SequentialRefresh == []OnePass /\ [][PassSteps]_vars

\* a tick has arrived while the worker's pass is calling the sources for the
\* second pair
C18_Witness ==
    /\ life.tick
    /\ life.worker = "refresh"
    /\ pass.by = "worker"
    /\ pass.idx = 2
    /\ call.pc = "collect"
    /\ InCall # {}
    /\ lookup(cache, "ETHUSDT").ok

-----------------------------------------------------------------------------
\* Properties of the cache lock

\* the readers between RLock and RUnlock
Inside == {r \in DOMAIN reader : reader[r].pc = "locked"}

\* the write side excludes readers and is held only by the refresh that is
\* writing; the read side is held by exactly the readers inside GetScores
LockState ==
    /\ mu.writer => (mu.readers = 0 /\ Inside = {} /\ pass.pc = "write")
    /\ pass.pc = "write" => mu.writer
    /\ mu.readers = Cardinality(Inside)

\* the cache map is written only with the write side held and read only with
\* the read side held
LockSteps ==
    /\ cache' # cache => (mu.writer /\ ~mu'.writer)
    /\ \A r \in DOMAIN reader :
        (reader[r].pc = "locked" /\ reader'[r].pc = "done") =>
            /\ ~mu.writer
            /\ mu.readers >= 1
            /\ reader'[r].scores = lookup(cache, reader[r].pair).scores
    /\ \A r \in DOMAIN reader :
        (reader[r].pc # "locked" /\ reader'[r].pc = "done" /\ reader'[r] # reader[r]) =>
            (reader'[r].pair = "" /\ ~reader'[r].ok)

\* C19: while refresh holds the write side no reader is inside GetScores and
\* no other writer holds the lock; readers may be inside GetScores together;
\* every read and every write of the cache map happens with its side of the
\* lock held.
C19_LockDiscipline == []LockState /\ [][LockSteps]_vars

\* two readers are inside GetScores at once while a refresh waits for the
\* write side
C19_Witness ==
    /\ Inside = {1, 2}
    /\ mu.readers = 2
    /\ ~mu.writer
    /\ pass.pc = "lock"
    /\ lookup(cache, "BTCUSDT").ok

-----------------------------------------------------------------------------
\* Properties of the calls made

\* the capability methods in the order fetchAndScore calls them
Methods == <<"funding", "spread", "depth">>

MethodAt(pc) == CHOOSE k \in 1..3 : Methods[k] = pc

\* what source i has been asked in the ScoreAll call in progress: each method
\* at most once and in order, none after a failure; the call in progress is
\* the next method and follows successes only; fetchAndScore returns after a
\* failure or the third method, and nothing is asked after it has returned
AskedInOrder(i) ==
    LET log == hist.invoked[i]
    IN  /\ Len(log) <= 3
        /\ \A k \in 1..Len(log) :
            /\ log[k].m = Methods[k]
            /\ k < Len(log) => log[k].ok
        /\ IF i \in InCall
           THEN /\ Len(log) = MethodAt(task[i].pc) - 1
                /\ \A k \in 1..Len(log) : log[k].ok
           ELSE IF task[i].pc = "send"
                THEN /\ Len(log) >= 1
                     /\ Len(log) = 3 \/ ~log[Len(log)].ok
                     /\ task[i].res.Err = "none" <=> (Len(log) = 3 /\ log[3].ok)
                ELSE log = <<>>

\* C20: within one ScoreAll call each source's methods are called at most
\* once, in the order funding rate, spread, order book depth, and none after
\* the source's first failing call; a refresh pass calls ScoreAll once per
\* configured pair, in order, whether earlier pairs failed or succeeded.
C20_NoRetries ==
    /\ \A i \in DOMAIN hist.invoked : AskedInOrder(i)
    /\ IsPrefix(hist.asked.pairs, pairs)
    /\ (pass = NoPass /\ life.start = "returned") =>
        hist.asked = [at |-> now, pairs |-> pairs]

\* in the worker's first pass the first pair has failed and the pass has gone
\* on to the second pair, where one source is abandoned after a failed funding
\* call while the other is at its last call
C20_Witness ==
    /\ pass.by = "worker"
    /\ pass.idx = 2
    /\ hist.asked = [at |-> 2, pairs |-> pairs]
    /\ hist.fails[1] = 1
    /\ hist.invoked[1] = <<[m |-> "funding", ok |-> FALSE]>>
    /\ task[1].pc = "send"
    /\ task[2].pc = "depth"
    /\ Len(hist.invoked[2]) = 2

-----------------------------------------------------------------------------
\* Properties of ScoreAll's channel

\* the goroutines that have sent their result
Sent == {i \in DOMAIN task : task[i].pc \in {"sent", "done"}}

\* the buffer has a slot for every source, so a send finds room and an open
\* channel; the channel is closed only after every goroutine has sent and
\* finished; what was sent is in the buffer or was received, once
ChannelState ==
    /\ call.pc = "collect" =>
        /\ Len(results) <= Len(exchanges)
        /\ \A i \in DOMAIN task :
            task[i].pc = "send" => (Len(results) < Len(exchanges) /\ ~closed)
        /\ closed => \A i \in DOMAIN task : task[i].pc = "done"
        /\ wgCount = Cardinality({i \in DOMAIN task : task[i].pc # "done"})
        /\ hist.received + Len(results) = Cardinality(Sent)
    /\ Returned =>
        /\ closed
        /\ Len(results) = 0
        /\ hist.received = Len(exchanges)

\* the channel is closed once in a call, by the closer, when the WaitGroup
\* counter is zero
ChannelSteps ==
    closed' # closed =>
        \/ ~closed /\ wgCount = 0 /\ call.pc = "collect" /\ call'.pc = "collect"
        \/ closed /\ call.pc = "idle" /\ call'.pc = "collect"

\* C21: if every source call returns, ScoreAll returns; every goroutine sends
\* one result and never blocks on the send, the channel is closed once and
\* only after every goroutine has sent, and the collection loop receives one
\* result per configured source.
C21_ScoreAllTerminates ==
    /\ []ChannelState
    /\ [][ChannelSteps]_vars
    /\ (call.pc = "collect") ~> Returned

\* the buffer of a call of two sources is full: both have sent and finished,
\* the channel is closed, and the loop has yet to receive
C21_Witness ==
    /\ call.pc = "collect"
    /\ Len(exchanges) = 2
    /\ Len(results) = 2
    /\ closed
    /\ hist.received = 0
    /\ \E i \in Sources : FailedACall(i)

-----------------------------------------------------------------------------
\* Stop

\* the step in which Stop returns, Start having returned
StopReturnsWhenDone ==
    (life.stop = "wait" /\ life'.stop = "returned" /\ life.start = "returned") =>
        /\ life'.worker = "exited"
        /\ pass' = NoPass
        /\ call'.pc = "idle"
        /\ \A i \in DOMAIN task' : task'[i].pc = "done"

\* C22: a Stop call eventually returns; a Stop that returns after Start has
\* returned, as every Stop called after Start's return does, returns when the
\* worker has exited, no refresh pass and no ScoreAll call is in progress and
\* every goroutine of the last ScoreAll call has finished; once the worker has
\* exited no pass or call is in progress again.
C22_StopTerminates ==
    /\ (life.stop = "wait") ~> (life.stop = "returned")
    /\ [][StopReturnsWhenDone]_vars
    /\ [](life.worker = "exited" => (pass = NoPass /\ call.pc = "idle"))

\* Stop has returned after a pass of the worker that it cancelled: the pass
\* failed although its first source call had been answered
C22_Witness ==
    /\ life.stop = "returned"
    /\ life.start = "returned"
    /\ life.worker = "exited"
    /\ life.parent = "live"
    /\ now = 2
    /\ hist.fails[1] = 1

\* a refresh pass of the worker begins
PassBegins == life.worker = "select" /\ life'.worker = "refresh"

\* C23: once Stop has been invoked the worker begins no refresh pass, also
\* when a tick is ready at or after the stop signal.
C23_NoPassAfterStop == [][life.stop # "idle" => ~PassBegins]_vars

-----------------------------------------------------------------------------
\* Published lists

\* the records of a list
RecordsOf(list) == {list[k] : k \in 1..Len(list)}

\* one ExchangeScore record is allocated per source and call (scorer.go:102):
\* source, pair and time of the pass tell the allocations apart
Ident(e) == <<e.Exchange, e.Pair, e.UpdatedAt>>

\* the records reachable from the cache or from a list GetScores has returned
Published ==
    UNION {RecordsOf(cache[p]) : p \in DOMAIN cache}
        \cup UNION {RecordsOf(reader[r].scores) : r \in DOMAIN reader}

\* the records the ScoreAll call in progress is building: fetchAndScore's
\* results, in the goroutines, in the channel and in the collected list, which
\* normalizeDepth, the composite loop and rankScores write to
InHand ==
    {task[i].res.Score : i \in {j \in DOMAIN task : task[j].res.Err = "none"}}
        \cup {results[k].Score : k \in {j \in 1..Len(results) : results[j].Err = "none"}}
        \cup RecordsOf(scores)

\* what ScoreAll works on is no published record, and every copy of a
\* published record, in the cache, in a reader's hands or in ScoreAll's last
\* result, has the same field values
FreshRecords ==
    /\ \A e \in InHand : \A q \in Published : Ident(e) # Ident(q)
    /\ \A e \in Published \cup RecordsOf(ret.scores) :
           \A q \in Published : Ident(e) = Ident(q) => e = q

\* a step changes a cache entry only by putting the whole list ScoreAll has
\* returned, of records that are all new, in its place, and changes the list a
\* reader holds only when that reader calls again
PublishedFrame ==
    /\ \A p \in DOMAIN cache :
          /\ p \in DOMAIN cache'
          /\ cache'[p] # cache[p] =>
                /\ pass.pc = "write"
                /\ p = pairs[pass.idx]
                /\ cache'[p] = ret.scores
                /\ \A e \in RecordsOf(cache'[p]) : \A q \in RecordsOf(cache[p]) :
                       Ident(e) # Ident(q)
    /\ \A r \in DOMAIN reader :
          reader'[r].scores # reader[r].scores =>
              \/ reader[r].pc \in {"idle", "done"} /\ reader'[r].scores = <<>>
              \/ reader[r].pc = "locked"
                    /\ reader'[r].scores = lookup(cache, reader[r].pair).scores

\* C24: a list stored in the cache or handed to a reader keeps its length,
\* order and field values; a later cycle works on new records and a new list
\* and replaces the cache entry as a whole, and a reader holding the older
\* list keeps that cycle's values.
C24_PublishedListsImmutable == []FreshRecords /\ [][PublishedFrame]_vars

\* a reader holds the list of the first pass after a later pass has replaced
\* the pair's cache entry
C24_Witness ==
    \E r \in DOMAIN reader :
        /\ reader[r].pc = "done"
        /\ reader[r].ok
        /\ reader[r].pair \in DOMAIN cache
        /\ Len(reader[r].scores) = 2
        /\ reader[r].scores[1].UpdatedAt = 1
        /\ cache[reader[r].pair][1].UpdatedAt = 2

-----------------------------------------------------------------------------
\* The pairs of a pass

\* the pass in progress has handled the k-th pair
Handled(k) == pass.by # "none" /\ k < pass.idx

\* ScoreAll has returned a list for the k-th pair in the pass in progress
ScoredNow(k) ==
    /\ pairs[k] \in DOMAIN hist.good
    /\ hist.good[pairs[k]][1].UpdatedAt = now

\* of every pair the pass has handled: ScoreAll was called for it in this
\* pass, in order, and if it returned a list the cache holds that list
PassState ==
    \A k \in 1..Len(pairs) :
        Handled(k) =>
            /\ hist.asked.at = now
            /\ k <= Len(hist.asked.pairs)
            /\ hist.asked.pairs[k] = pairs[k]
            /\ ScoredNow(k) => lookup(cache, pairs[k]).scores = hist.good[pairs[k]]

\* a step changes the cache entry of the pair being handled only; the step
\* after a failed ScoreAll goes on to the next pair and leaves the cache
\* alone; a pass ends only after the last pair
PairSteps ==
    /\ \A q \in (DOMAIN cache) \cup (DOMAIN cache') :
          lookup(cache', q) # lookup(cache, q) =>
              pass.pc = "write" /\ q = pairs[pass.idx]
    /\ (pass.pc = "await" /\ call.pc = "returned" /\ ret.err /\ pass' # pass) =>
          /\ pass' = [pass EXCEPT !.idx = @ + 1, !.pc = "call"]
          /\ cache' = cache
    /\ (pass.by # "none" /\ pass'.by = "none") =>
          /\ pass.idx = Len(pairs) + 1
          /\ Len(hist.asked.pairs) = Len(pairs)

\* C25: handling a pair changes at most that pair's cache entry; a failed
\* ScoreAll does not end the pass: ScoreAll is called for every later pair, and
\* a list it returns is published in the same pass.
C25_PairsIndependent == []PassState /\ [][PairSteps]_vars

\* the first pass has handled both pairs: ScoreAll failed for the first, and
\* the list of the second is in the cache
C25_Witness ==
    /\ Len(pairs) = 2
    /\ Handled(2)
    /\ now = 1
    /\ pairs[1] \notin DOMAIN cache
    /\ pairs[2] \in DOMAIN cache
    /\ ScoredNow(2)

-----------------------------------------------------------------------------
\* The shape of the cache

\* C26: the keys of the cache are configured pairs; every cached list has at
\* least one entry and at most one per configured source, and each entry
\* carries the key as its pair and the name of a configured source.
C26_CacheShape ==
    \A p \in DOMAIN cache :
        /\ Configured(p)
        /\ Len(cache[p]) >= 1
        /\ Len(cache[p]) <= Len(exchanges)
        /\ \A k \in 1..Len(cache[p]) :
              /\ cache[p][k].Pair = p
              /\ \E i \in Sources : Name(i) = cache[p][k].Exchange

\* both pairs are cached, one with a list of every source and one with a list
\* of a single source
C26_Witness ==
    /\ Len(pairs) = 2
    /\ DOMAIN cache = {pairs[1], pairs[2]}
    /\ Len(cache[pairs[1]]) = Len(exchanges)
    /\ Len(cache[pairs[2]]) = 1
    /\ Len(exchanges) = 2

-----------------------------------------------------------------------------
\* Cancellation of the context given to Start

\* once the worker has exited the cache is not written
NoWriteAfterExit == life.worker = "exited" => cache' = cache

\* C27: when the context given to Start is cancelled the worker eventually
\* exits, whether or not Stop is called; once it has exited the cache is never
\* written again and the WaitGroup counter is 0, so that the wg.Wait of a
\* later Stop returns at once.
C27_ParentCancelStopsWorker ==
    /\ (life.parent = "done" /\ life.start # "idle") ~> (life.worker = "exited")
    /\ [][NoWriteAfterExit]_vars
    /\ [](life.worker = "exited" => life.wg = 0)

\* the worker has exited on the cancelled context after a pass of its own,
\* with a list in the cache, and Stop has not been called
C27_Witness ==
    /\ life.worker = "exited"
    /\ life.parent = "done"
    /\ life.stop = "idle"
    /\ life.wg = 0
    /\ now = 2
    /\ cache # EmptyCache

=============================================================================
